---- MODULE Spec2Model ----
(***************************************************************************)
(* Model of process_bp_pricing.py: the sheet parser parse_bp_pricing (a    *)
(* forward scan over the rows of a spreadsheet) and main (file discovery,  *)
(* change detection by digest, history reconciliation, snapshot, token).   *)
(*                                                                         *)
(* Text is a sequence of characters; a character that is not whitespace    *)
(* is abstracted to a whole word, so "Eagle Farm" is <<"Eagle Farm">> and  *)
(* " Terminal" is <<" ", "Terminal">>.  A cell of the sheet is one of      *)
(* Empty, Text, Date, Number (what pandas.read_excel yields: NaN, str,     *)
(* datetime, float).  Python index j of a row is index j + 1 here.         *)
(***************************************************************************)
EXTENDS Integers, Sequences, FiniteSets, TLC

\* ------------------------------------------------------------------ bounds
MaxCols == 5
MaxRecords == 2
MaxRuns == 2

\* ------------------------------------------------------------------- cells
NoText == <<>>

Empty == [kind |-> "Empty", txt |-> NoText, num |-> 0, day |-> 0, tod |-> 0]

Text(t) == [kind |-> "Text", txt |-> t, num |-> 0, day |-> 0, tod |-> 0]

Date(d, h) == [kind |-> "Date", txt |-> NoText, num |-> 0, day |-> d, tod |-> h]

Number(n) == [kind |-> "Number", txt |-> NoText, num |-> n, day |-> 0, tod |-> 0]

pd_isna(c) == c.kind = "Empty"

isinstance_str(c) == c.kind = "Text"

isinstance_datetime(c) == c.kind = "Date"

RECURSIVE lstrip(_)
lstrip(t) == IF t # <<>> /\ Head(t) = " " THEN lstrip(Tail(t)) ELSE t

RECURSIVE rstrip(_)
rstrip(t) ==
    IF t # <<>> /\ t[Len(t)] = " " THEN rstrip(SubSeq(t, 1, Len(t) - 1)) ELSE t

strip(t) == rstrip(lstrip(t))

\* str(x) of a cell that is not NaN: text as it is, a float by its digits.
str(c) ==
    CASE c.kind = "Text" -> c.txt
      [] c.kind = "Number" -> <<ToString(c.num)>>
      [] c.kind = "Date" -> <<ToString(c.day), " ", ToString(c.tod)>>
      [] OTHER -> <<"nan">>

\* float(x): a number is itself, text must be a numeric literal (surrounding
\* whitespace allowed), anything else raises.
NumericLiterals == {<<"105">>}

float(c) ==
    CASE c.kind = "Number" -> [raised |-> "none", val |-> c.num]
      [] c.kind = "Text" /\ strip(c.txt) \in NumericLiterals ->
            [raised |-> "none", val |-> 105]
      [] c.kind = "Text" -> [raised |-> "ValueError", val |-> 0]
      [] OTHER -> [raised |-> "TypeError", val |-> 0]

\* ------------------------------------------------------- parse_bp_pricing
\* row[j] of the source (0-based label j of a pandas Series).
at(r, j) == r[j + 1]

\* None for a text-valued local (current_state, terminal): Python's truth
\* test treats None and '' alike, and neither local is ever set to ''.
None == <<>>

\* header_row = None
NoHeader == [set |-> FALSE, date_col |-> 0, terminal_col |-> 0, fuel_cols |-> <<>>]

Banner1 == <<"BP terminal gate pricing by state">>

Banner2 ==
    <<"These prices are current and displayed in Australian cents per litre with GST included.">>

Banner3 ==
    <<"Fuels are sold at temperature-corrected volumes as legislated by the federal government.">>

MetadataLines == {Banner1, Banner2, Banner3}

\* d[k] = v on a dict kept as the sequence of its items in insertion order:
\* an existing key keeps its position and takes the new value.
DictSet(d, k, v) ==
    IF \E n \in 1..Len(d) : d[n].fuel = k
    THEN [n \in 1..Len(d) |-> IF d[n].fuel = k THEN [fuel |-> k, col |-> v] ELSE d[n]]
    ELSE Append(d, [fuel |-> k, col |-> v])

\* {row[j].strip(): j for j in range(3, len(row)) if not isna and is str}
RECURSIVE fuel_cols_from(_, _, _)
fuel_cols_from(r, j, d) ==
    IF j >= Len(r) THEN d
    ELSE IF ~pd_isna(at(r, j)) /\ isinstance_str(at(r, j))
         THEN fuel_cols_from(r, j + 1, DictSet(d, strip(at(r, j).txt), j))
         ELSE fuel_cols_from(r, j + 1, d)

\* all(pd.isna(row[j]) for j in range(1, len(row)))
\* The skip taken only when the whole row is empty.
skips_row_if_all_empty(r) == \A j \in 0..(Len(r) - 1) : pd_isna(at(r, j))

\* if pd.isna(row[0]): continue
skips_row(r) == pd_isna(at(r, 0))

alone_in_column_0(r) == \A j \in 1..(Len(r) - 1) : pd_isna(at(r, j))

is_state_header(r) ==
    /\ isinstance_str(at(r, 0))
    /\ strip(at(r, 0).txt) # <<>>
    /\ alone_in_column_0(r)

is_metadata_line(r) == at(r, 0).txt \in MetadataLines

is_header_row(r) ==
    /\ isinstance_str(at(r, 2))
    /\ strip(at(r, 2).txt) = <<"Terminal">>

\* The fuel columns taken from the terminal column on (range(2, ...)).
new_header_row_from_terminal(r) ==
    [set |-> TRUE, date_col |-> 0, terminal_col |-> 2,
     fuel_cols |-> fuel_cols_from(r, 2, <<>>)]

\* The fuel columns without the last one (range(3, len(row) - 1)).
new_header_row_short(r) ==
    [set |-> TRUE, date_col |-> 0, terminal_col |-> 2,
     fuel_cols |-> fuel_cols_from(SubSeq(r, 1, Len(r) - 1), 3, <<>>)]

new_header_row(r) ==
    [set |-> TRUE, date_col |-> 0, terminal_col |-> 2,
     fuel_cols |-> fuel_cols_from(r, 3, <<>>)]

\* The data-row test without the check of current_state.
is_data_row_any_state(cs, hr, r) ==
    /\ hr.set
    /\ isinstance_datetime(at(r, 0))

is_data_row(cs, hr, r) ==
    /\ cs # None
    /\ hr.set
    /\ isinstance_datetime(at(r, 0))

terminal_of(hr, r) ==
    IF ~pd_isna(at(r, hr.terminal_col))
    THEN strip(str(at(r, hr.terminal_col)))
    ELSE None

\* The test of the terminal without the comparison to 'nan'.
terminal_ok_not_none(terminal) == terminal # None

terminal_ok(terminal) == terminal # None /\ terminal # <<"nan">>

\* effective_date.date(): the calendar day, time of day dropped.
date_of(c) == c.day

new_record(cs, r, terminal, fuel, price, now) ==
    [state |-> cs,
     effective_date |-> date_of(at(r, 0)),
     terminal |-> terminal,
     fuel_type |-> fuel,
     price_cents_per_litre |-> price,
     scraped_timestamp |-> now]

\* for fuel, col_idx in header_row['fuel_cols'].items(): ... from item n on;
\* float(price) raising ends the loop (and the parse) with the exception.
RECURSIVE append_prices(_, _, _, _, _, _, _)
append_prices(recs, items, n, cs, r, terminal, now) ==
    IF n > Len(items) THEN [records |-> recs, raised |-> "none"]
    ELSE LET price == at(r, items[n].col)
             f == float(price)
         IN  IF pd_isna(price)
             THEN append_prices(recs, items, n + 1, cs, r, terminal, now)
             ELSE IF f.raised # "none"
                  THEN [records |-> recs, raised |-> f.raised]
                  ELSE append_prices(
                         Append(recs, new_record(cs, r, terminal, items[n].fuel, f.val, now)),
                         items, n + 1, cs, r, terminal, now)

\* One pass of the loop body over row r.  ctx holds the locals of the scan:
\* current_state, header_row, data_records, and the exception raised, if any.
ScanRow(ctx, r, now) ==
    IF skips_row(r) THEN ctx
    ELSE IF is_state_header(r)
    THEN IF ~is_metadata_line(r)
         THEN [ctx EXCEPT !.current_state = strip(at(r, 0).txt)]
         ELSE ctx
    ELSE IF Len(r) < 3
    THEN [ctx EXCEPT !.raised = "KeyError"]
    ELSE IF is_header_row(r)
    THEN [ctx EXCEPT !.header_row = new_header_row(r)]
    ELSE IF is_data_row(ctx.current_state, ctx.header_row, r)
    THEN LET terminal == terminal_of(ctx.header_row, r)
             out == append_prices(ctx.data_records, ctx.header_row.fuel_cols, 1,
                                  ctx.current_state, r, terminal, now)
         IN  IF terminal_ok(terminal)
             THEN [ctx EXCEPT !.data_records = out.records, !.raised = out.raised]
             ELSE ctx
    ELSE ctx

StartOfScan ==
    [current_state |-> None, header_row |-> NoHeader,
     data_records |-> <<>>, raised |-> "none"]

\* The whole function on grid df_raw: the rows in order, stopping at the
\* first exception.
RECURSIVE scan_from(_, _, _, _)
scan_from(ctx, df_raw, i, now) ==
    IF i > Len(df_raw) \/ ctx.raised # "none" THEN ctx
    ELSE scan_from(ScanRow(ctx, df_raw[i], now), df_raw, i + 1, now)

scan_rows(df_raw, now) == scan_from(StartOfScan, df_raw, 1, now)

\* ------------------------------------------------------------ input files
\* A file name is the sequence of its dot-separated parts.
PricingXlsx == <<"bp-terminal-gate-pricing", "xlsx">>

PageHtmlXlsx == <<"bp-terminal-gate-pricing", "html", "xlsx">>

Queensland == <<"Queensland">>

Victoria == <<"Victoria">>

EagleFarm == <<"Eagle Farm">>

Unleaded91 == <<"Unleaded 91">>

Diesel == <<"Diesel">>

\* Rows of a five-column sheet: section header, column header (first cell
\* c0), data row (date d at time of day h, terminal, two price cells).
SectionRow(t) == <<Text(t), Empty, Empty, Empty, Empty>>

ColumnHeaderRow(c0) ==
    <<c0, Empty, Text(<<"Terminal">>), Text(Unleaded91), Text(Diesel)>>

PriceRow(d, h, t, p, q) == <<Date(d, h), Empty, Text(t), p, q>>

EffectiveDate == Text(<<"Effective Date">>)

\* The spreadsheets that can be downloaded; a file's content is its index
\* here (0: an HTML page saved under an .xlsx name, not a workbook).  Prices
\* are in tenths of a cent (1899 is 189.9), days are day numbers.
Sheets ==
    << \* 1: the grid of the spec's scenario (header row starts with null)
       <<SectionRow(Queensland), ColumnHeaderRow(Empty),
         PriceRow(10, 0, EagleFarm, Number(1899), Number(1955))>>,
       \* 2: the same with 'Effective Date' heading column 0
       <<SectionRow(Queensland), ColumnHeaderRow(EffectiveDate),
         PriceRow(10, 0, EagleFarm, Number(1899), Number(1955))>>,
       \* 3: sheet 2 repriced
       <<SectionRow(Queensland), ColumnHeaderRow(EffectiveDate),
         PriceRow(10, 9, EagleFarm, Number(1950), Number(1955))>>,
       \* 4: a later day, two states, a price cell left empty
       <<SectionRow(Victoria), ColumnHeaderRow(EffectiveDate),
         PriceRow(11, 0, EagleFarm, Number(2001), Empty),
         SectionRow(Queensland),
         PriceRow(11, 0, EagleFarm, Number(1899), Number(1960))>>,
       \* 5: the same day and terminal listed twice
       <<SectionRow(Queensland), ColumnHeaderRow(EffectiveDate),
         PriceRow(10, 0, EagleFarm, Number(1899), Number(1955)),
         PriceRow(10, 0, EagleFarm, Number(1901), Empty)>>,
       \* 6: a price cell holding text
       <<SectionRow(Queensland), ColumnHeaderRow(EffectiveDate),
         PriceRow(10, 0, EagleFarm, Text(<<"n/a">>), Number(1955))>>,
       \* 7: the scenario's shape on another day, header row starting null
       <<SectionRow(Queensland), ColumnHeaderRow(Empty),
         PriceRow(11, 0, EagleFarm, Number(1950), Number(1960))>> >>

Contents == 0..Len(Sheets)

\* What the download step can leave in the directory: any content under the
\* workbook's name, and beside it the page it was linked from (or a copy of
\* workbook 2) under the .html.xlsx name.
Downloads ==
    ({PricingXlsx} \X Contents) \cup ({PageHtmlXlsx} \X {0, 2})

\* get_file_hash: the MD5 digest of the bytes, taken collision-free on the
\* contents of the model.
get_file_hash(bytes) == (bytes * 11 + 5) % 16

\* f.endswith('.' + suffix parts)
endswith(name, suffix) ==
    /\ Len(name) > Len(suffix)
    /\ SubSeq(name, Len(name) - Len(suffix) + 1, Len(name)) = suffix

\* The filter without the exclusion of .html.xlsx names.
is_xlsx_any(f) == endswith(f.name, <<"xlsx">>)

is_xlsx(f) == endswith(f.name, <<"xlsx">>) /\ ~endswith(f.name, <<"html", "xlsx">>)

\* [f for f in os.listdir('.') if ...], the directory kept in ctime order
list_xlsx_files(d) == SelectSeq(d, is_xlsx)

\* max(xlsx_files, key=os.path.getctime)
latest_of(xlsx_files) == xlsx_files[Len(xlsx_files)]

\* pd.read_excel(excel_file, sheet_name=0, header=None)
read_excel(bytes) ==
    IF bytes \in 1..Len(Sheets)
    THEN [raised |-> "none", df_raw |-> Sheets[bytes]]
    ELSE [raised |-> "BadZipFile", df_raw |-> <<>>]

\* parse_bp_pricing(excel_file): read the first sheet, scan it, return the
\* records (or raise).
parse_bp_pricing(bytes, now) ==
    LET x == read_excel(bytes)
    IN  IF x.raised # "none"
        THEN [StartOfScan EXCEPT !.raised = x.raised]
        ELSE scan_rows(x.df_raw, now)

\* ------------------------------------------------------------- dataframes
\* Order of str values: by character, " " before every word, the words in
\* the order of their first letters.
SortedWords ==
    <<" ", "Diesel", "Eagle Farm", "Queensland", "Unleaded 91", "Victoria">>

WordRank(w) == CHOOSE n \in 1..Len(SortedWords) : SortedWords[n] = w

CompareInt(x, y) == IF x < y THEN -1 ELSE IF x > y THEN 1 ELSE 0

RECURSIVE CompareText(_, _)
CompareText(a, b) ==
    IF a = <<>> /\ b = <<>> THEN 0
    ELSE IF a = <<>> THEN -1
    ELSE IF b = <<>> THEN 1
    ELSE IF Head(a) # Head(b) THEN CompareInt(WordRank(Head(a)), WordRank(Head(b)))
    ELSE CompareText(Tail(a), Tail(b))

CompareField(k, x, y) ==
    IF k = "effective_date" THEN CompareInt(x[k], y[k]) ELSE CompareText(x[k], y[k])

\* x sorts strictly before y under sort_values(by, ascending)
RECURSIVE SortsBefore(_, _, _, _, _)
SortsBefore(x, y, by, ascending, n) ==
    IF n > Len(by) THEN FALSE
    ELSE LET c == CompareField(by[n], x, y)
         IN  IF c = 0 THEN SortsBefore(x, y, by, ascending, n + 1)
             ELSE IF ascending[n] THEN c < 0 ELSE c > 0

\* Insert x behind every row that does not sort after it (the sort is stable).
RECURSIVE InsertSorted(_, _, _, _)
InsertSorted(sorted, x, by, ascending) ==
    IF sorted = <<>> THEN <<x>>
    ELSE IF SortsBefore(x, Head(sorted), by, ascending, 1)
         THEN <<x>> \o sorted
         ELSE <<Head(sorted)>> \o InsertSorted(Tail(sorted), x, by, ascending)

RECURSIVE sort_values(_, _, _)
sort_values(df, by, ascending) ==
    IF df = <<>> THEN <<>>
    ELSE InsertSorted(sort_values(SubSeq(df, 1, Len(df) - 1), by, ascending),
                      df[Len(df)], by, ascending)

IdentityColumns == <<"state", "effective_date", "terminal", "fuel_type">>

SameOn(subset, x, y) == \A n \in 1..Len(subset) : x[subset[n]] = y[subset[n]]

\* keep='first' in place of keep='last'
RECURSIVE drop_duplicates_keep_first(_, _)
drop_duplicates_keep_first(df, subset) ==
    IF df = <<>> THEN <<>>
    ELSE LET n == Len(df)
         IN  IF \E m \in 1..(n - 1) : SameOn(subset, df[n], df[m])
             THEN drop_duplicates_keep_first(SubSeq(df, 1, n - 1), subset)
             ELSE drop_duplicates_keep_first(SubSeq(df, 1, n - 1), subset) \o <<df[n]>>

\* df.drop_duplicates(subset=subset, keep='last')
RECURSIVE drop_duplicates(_, _)
drop_duplicates(df, subset) ==
    IF df = <<>> THEN <<>>
    ELSE IF \E m \in 2..Len(df) : SameOn(subset, df[1], df[m])
         THEN drop_duplicates(Tail(df), subset)
         ELSE <<Head(df)>> \o drop_duplicates(Tail(df), subset)

\* pd.concat([a, b], ignore_index=True)
concat(a, b) == a \o b

\* .min() in place of .max()
RECURSIVE min_effective_date(_)
min_effective_date(df) ==
    IF Len(df) = 1 THEN df[1].effective_date
    ELSE LET m == min_effective_date(Tail(df))
         IN  IF df[1].effective_date < m THEN df[1].effective_date ELSE m

\* df['effective_date'].max()
RECURSIVE max_effective_date(_)
max_effective_date(df) ==
    IF Len(df) = 1 THEN df[1].effective_date
    ELSE LET m == max_effective_date(Tail(df))
         IN  IF df[1].effective_date > m THEN df[1].effective_date ELSE m

\* df[df['effective_date'] == latest_date]
on_date(x, d) == x.effective_date = d

rows_on_date(df, d) == SelectSeq(df, LAMBDA x : on_date(x, d))

\* to_csv(index=False): one line per row, the columns in frame order; a date
\* is written as its ISO text, which names the day.
csv_line(x) ==
    <<x.state, x.effective_date, x.terminal, x.fuel_type,
      x.price_cents_per_litre, x.scraped_timestamp>>

to_csv(df) == [n \in 1..Len(df) |-> csv_line(df[n])]

\* pd.read_csv(history_file, parse_dates=[...])
csv_record(l) ==
    [state |-> l[1], effective_date |-> l[2], terminal |-> l[3],
     fuel_type |-> l[4], price_cents_per_litre |-> l[5],
     scraped_timestamp |-> l[6]]

read_csv(lines) == [n \in 1..Len(lines) |-> csv_record(lines[n])]

\* ------------------------------------------------------------------ state
VARIABLES
    dir,            \* the working directory: files [name, content], oldest first
    hash_file,      \* .bp_pricing_hash: [exists, text]
    history_file,   \* bp_pricing_history.csv: [exists, lines]
    latest_file,    \* bp_pricing_latest.csv: [exists, lines]
    pc,             \* where main is: "idle" (not running) or the next write
    current_hash,   \* main's local
    df_new,         \* main's local
    df_combined,    \* main's local
    exit_code,      \* exit code of the last finished run (-1 while running)
    out,            \* the last line printed: [msg, hash]
    runs,           \* the clock: processing runs started so far
    cols,           \* parse_bp_pricing: the width of df_raw
    row,            \* parse_bp_pricing: the row the body is on (<<>> between two)
    current_state,  \* parse_bp_pricing's local
    header_row,     \* parse_bp_pricing's local
    data_records,   \* parse_bp_pricing's local
    raised,         \* parse_bp_pricing: the exception that ended the scan
    scan_pc         \* parse_bp_pricing: "for" (between two rows), "body", "returned"

main_vars ==
    <<dir, hash_file, history_file, latest_file, pc, current_hash, df_new,
      df_combined, exit_code, out, runs>>

parse_vars == <<cols, row, current_state, header_row, data_records, raised, scan_pc>>

vars == <<main_vars, parse_vars>>

Absent == [exists |-> FALSE, text |-> 0]

NoCsv == [exists |-> FALSE, lines |-> <<>>]

Printed(m, h) == [msg |-> m, hash |-> h]

InitMain ==
    /\ dir = <<>>
    /\ hash_file = Absent
    /\ history_file = NoCsv
    /\ latest_file = NoCsv
    /\ pc = "idle"
    /\ current_hash = 0
    /\ df_new = <<>>
    /\ df_combined = <<>>
    /\ exit_code = 0
    /\ out = Printed("", 0)
    /\ runs = 0

InitScan ==
    /\ row = <<>>
    /\ current_state = None
    /\ header_row = NoHeader
    /\ data_records = <<>>
    /\ raised = "none"
    /\ scan_pc = "for"

Init == InitMain /\ InitScan /\ cols = 0

\* ------------------------------------------------------------------- main
\* A file arrives in the working directory (the scraper's download step):
\* it replaces a file of the same name and is the most recently created.
Download(name, bytes) ==
    /\ pc = "idle"
    /\ dir' = SelectSeq(dir, LAMBDA f : f.name # name)
                 \o <<[name |-> name, content |-> bytes]>>
    /\ UNCHANGED <<hash_file, history_file, latest_file, pc, current_hash,
                   df_new, df_combined, exit_code, out, runs>>

\* sys.exit(code) / return / an uncaught exception, after printing m
Exit(code, m, h) ==
    /\ pc' = "idle"
    /\ exit_code' = code
    /\ out' = Printed(m, h)
    /\ UNCHANGED <<dir, hash_file, history_file, latest_file, current_hash,
                   df_new, df_combined, runs>>

\* The comparison of the digests inverted.
hash_changed(h) == hash_file.exists /\ h # hash_file.text

\* the token file is there and holds the digest h
hash_unchanged(h) == hash_file.exists /\ h = hash_file.text

\* The emptiness test never firing.
never_empty(df) == FALSE

\* df_new.empty
empty(df) == df = <<>>

\* The history replaced by the new rows instead of merged with them.
combine_replacing(new) == new

\* df_combined before the sort: history and new rows reconciled
combine(new) ==
    IF history_file.exists
    THEN drop_duplicates(concat(read_csv(history_file.lines), new), IdentityColumns)
    ELSE new

\* Every key ascending.
sort_history_ascending(df) ==
    sort_values(df, <<"state", "effective_date", "terminal", "fuel_type">>,
                <<TRUE, TRUE, TRUE, TRUE>>)

sort_history(df) ==
    sort_values(df, <<"state", "effective_date", "terminal", "fuel_type">>,
                <<TRUE, FALSE, TRUE, TRUE>>)

sort_latest(df) ==
    sort_values(df, <<"state", "terminal", "fuel_type">>, <<TRUE, TRUE, TRUE>>)

\* main() from its start to just before the first write.
Main ==
    /\ pc = "idle"
    /\ LET xlsx_files == list_xlsx_files(dir)
           latest_xlsx == latest_of(xlsx_files)
           h == get_file_hash(latest_xlsx.content)
           parsed == parse_bp_pricing(latest_xlsx.content, runs + 1)
       IN  IF xlsx_files = <<>>
           THEN Exit(1, "No .xlsx file found", 0)
           ELSE IF hash_unchanged(h)
           THEN Exit(0, "File unchanged", h)
           ELSE IF parsed.raised # "none"
           THEN Exit(1, parsed.raised, 0)
           ELSE IF empty(parsed.data_records)
           THEN Exit(1, "No data extracted from file", 0)
           ELSE /\ runs < MaxRuns
                /\ runs' = runs + 1
                /\ current_hash' = h
                /\ df_new' = parsed.data_records
                /\ df_combined' = sort_history(combine(parsed.data_records))
                /\ pc' = "write_history"
                /\ exit_code' = -1
                /\ out' = Printed("Processing", 0)
                /\ UNCHANGED <<dir, hash_file, history_file, latest_file>>

\* The token saved together with the history, before the snapshot.
WriteHistoryAndToken ==
    /\ pc = "write_history"
    /\ history_file' = [exists |-> TRUE, lines |-> to_csv(df_combined)]
    /\ hash_file' = [exists |-> TRUE, text |-> current_hash]
    /\ out' = Printed("Updated history", 0)
    /\ pc' = "write_latest"
    /\ UNCHANGED <<dir, latest_file, current_hash, df_new,
                   df_combined, exit_code, runs>>

\* df_combined.to_csv(history_file, index=False)
WriteHistory ==
    /\ pc = "write_history"
    /\ history_file' = [exists |-> TRUE, lines |-> to_csv(df_combined)]
    /\ out' = Printed("Updated history", 0)
    /\ pc' = "write_latest"
    /\ UNCHANGED <<dir, hash_file, latest_file, current_hash, df_new,
                   df_combined, exit_code, runs>>

latest_rows(df) == sort_latest(rows_on_date(df, max_effective_date(df)))

\* df_latest.to_csv('bp_pricing_latest.csv', index=False)
WriteLatest ==
    /\ pc = "write_latest"
    /\ latest_file' = [exists |-> TRUE, lines |-> to_csv(latest_rows(df_combined))]
    /\ out' = Printed("Updated latest", 0)
    /\ pc' = "write_hash"
    /\ UNCHANGED <<dir, hash_file, history_file, current_hash, df_new,
                   df_combined, exit_code, runs>>

\* main returning without having written the token.
WriteHashForgotten ==
    /\ pc = "write_hash"
    /\ out' = Printed("Hash saved", current_hash)
    /\ pc' = "idle"
    /\ exit_code' = 0
    /\ current_hash' = 0
    /\ df_new' = <<>>
    /\ df_combined' = <<>>
    /\ UNCHANGED <<dir, hash_file, history_file, latest_file, runs>>

\* with open(hash_file, 'w') as f: f.write(current_hash); then main returns
\* and its locals are gone.
WriteHash ==
    /\ pc = "write_hash"
    /\ hash_file' = [exists |-> TRUE, text |-> current_hash]
    /\ out' = Printed("Hash saved", current_hash)
    /\ pc' = "idle"
    /\ exit_code' = 0
    /\ current_hash' = 0
    /\ df_new' = <<>>
    /\ df_combined' = <<>>
    /\ UNCHANGED <<dir, history_file, latest_file, runs>>

\* The process is killed between two writes.
Crash ==
    /\ pc # "idle"
    /\ pc' = "idle"
    /\ exit_code' = 137
    /\ current_hash' = 0
    /\ df_new' = <<>>
    /\ df_combined' = <<>>
    /\ UNCHANGED <<dir, hash_file, history_file, latest_file, out, runs>>

Next ==
    \/ \E d \in Downloads : Download(d[1], d[2]) /\ UNCHANGED parse_vars
    \/ Main /\ UNCHANGED parse_vars
    \/ WriteHistory /\ UNCHANGED parse_vars
    \/ WriteLatest /\ UNCHANGED parse_vars
    \/ WriteHash /\ UNCHANGED parse_vars
    \/ Crash /\ UNCHANGED parse_vars

Spec == Init /\ [][Next]_vars

\* ----------------------------------------------- parse_bp_pricing, by row
\* The cells a column of the sheet can hold.
FuelNames == <<Unleaded91, Diesel, <<"Premium 98">>, <<"LPG">>>>

Col0Cells ==
    {Empty, Text(<<"Queensland", " ">>), Text(Banner1), Text(<<" ">> \o Banner1),
     Text(<<" ">>), Date(10, 9)}

Col1Cells == {Empty, Text(<<"x">>)}

Col2Cells ==
    {Empty, Text(<<" ", "Terminal">>), Text(<<"Eagle Farm", " ">>),
     Text(<<"nan">>), Text(<<" ">>)}

PriceCells(j) == {Empty, Text(FuelNames[j - 2]), Number(1000 + j)}

CellsAt(j) ==
    CASE j = 0 -> Col0Cells
      [] j = 1 -> Col1Cells
      [] j = 2 -> Col2Cells
      [] OTHER -> PriceCells(j)

\* every row of width w
RECURSIVE Rows(_)
Rows(w) ==
    IF w = 0 THEN {<<>>}
    ELSE {Append(r, c) : r \in Rows(w - 1), c \in CellsAt(w - 1)}

scan_ctx ==
    [current_state |-> current_state, header_row |-> header_row,
     data_records |-> data_records, raised |-> raised]

\* `for i, row in df_raw.iterrows()` yields the next row of the sheet.
NextRow ==
    /\ scan_pc = "for"
    /\ raised = "none"
    /\ Len(data_records) < MaxRecords
    /\ row' \in Rows(cols)
    /\ scan_pc' = "body"
    /\ UNCHANGED <<cols, current_state, header_row, data_records, raised>>

\* The body of the loop on that row.
ScanBody ==
    /\ scan_pc = "body"
    /\ LET after == ScanRow(scan_ctx, row, runs + 1)
       IN  /\ current_state' = after.current_state
           /\ header_row' = after.header_row
           /\ data_records' = after.data_records
           /\ raised' = after.raised
    /\ scan_pc' = "for"
    /\ row' = <<>>
    /\ UNCHANGED cols

\* return pd.DataFrame(data_records), after the last row
ReturnFrame ==
    /\ scan_pc = "for"
    /\ raised = "none"
    /\ scan_pc' = "returned"
    /\ UNCHANGED <<cols, row, current_state, header_row, data_records, raised>>

InitParse == InitMain /\ InitScan /\ cols \in 1..MaxCols

NextParse ==
    \/ NextRow /\ UNCHANGED main_vars
    \/ ScanBody /\ UNCHANGED main_vars
    \/ ReturnFrame /\ UNCHANGED main_vars

SpecParse == InitParse /\ [][NextParse]_vars

\* ================================================================= claims
\* ---------------------------------------------------- helpers of the claims
HasInput == list_xlsx_files(dir) # <<>>

SelectedBytes == latest_of(list_xlsx_files(dir)).content

SelectedIsSheet == HasInput /\ SelectedBytes \in 1..Len(Sheets)

\* a run starts on a file the token does not vouch for
StartsOnChangedFile ==
    /\ pc = "idle"
    /\ HasInput
    /\ ~(hash_file.exists /\ hash_file.text = get_file_hash(SelectedBytes))
    /\ Main

LineIdentity(l) == <<l[1], l[2], l[3], l[4]>>

RecordIdentity(x) == <<x.state, x.effective_date, x.terminal, x.fuel_type>>

\* The grid of the scenario: a section row 'Queensland' alone in column 0, a
\* column-header row (first cell empty or not, as asked), one data row with
\* a date, a terminal and a number in every fuel column.
ScenarioShape(g, firstHeaderCellEmpty) ==
    /\ Len(g) = 3
    /\ g[1][1] = Text(<<"Queensland">>)
    /\ \A j \in 2..Len(g[1]) : g[1][j] = Empty
    /\ Len(g[2]) >= 4
    /\ (g[2][1] = Empty) <=> firstHeaderCellEmpty
    /\ g[2][2] = Empty
    /\ g[2][3] = Text(<<"Terminal">>)
    /\ \A j \in 4..Len(g[2]) : g[2][j].kind = "Text"
    /\ \A j, k \in 4..Len(g[2]) : j # k => g[2][j] # g[2][k]
    /\ g[3][1].kind = "Date"
    /\ g[3][3].kind = "Text"
    /\ \A j \in 4..Len(g[3]) : g[3][j].kind = "Number"

ScenarioRecords(g, now) ==
    [n \in 1..(Len(g[2]) - 3) |->
        [state |-> <<"Queensland">>,
         effective_date |-> g[3][1].day,
         terminal |-> g[3][3].txt,
         fuel_type |-> g[2][n + 3].txt,
         price_cents_per_litre |-> g[3][n + 3].num,
         scraped_timestamp |-> now]]

\* C1 as stated: the scenario grid, whose column-header row starts with two
\* empty cells, parses to one record per fuel column, each with state
\* 'Queensland', the row's date, terminal, that fuel and that price.
C1_ScenarioAsStated ==
    [][(StartsOnChangedFile /\ SelectedIsSheet
           /\ ScenarioShape(Sheets[SelectedBytes], TRUE))
        => df_new' = ScenarioRecords(Sheets[SelectedBytes], runs + 1)]_vars

\* C1 amended: the same grid with a non-empty first cell in the column-header
\* row ('Effective Date') parses to exactly one record per fuel column, each
\* with state 'Queensland', the row's date, terminal, that fuel and price;
\* with that cell empty the parser returns no record.
C1_ScenarioWithDateHeading ==
    [][/\ (StartsOnChangedFile /\ SelectedIsSheet
            /\ ScenarioShape(Sheets[SelectedBytes], FALSE))
         => /\ df_new' = ScenarioRecords(Sheets[SelectedBytes], runs + 1)
            /\ pc' = "write_history"
       /\ (StartsOnChangedFile /\ SelectedIsSheet
            /\ ScenarioShape(Sheets[SelectedBytes], TRUE))
         => /\ out'.msg = "No data extracted from file"
            /\ pc' = "idle"]_vars

C1_Witness ==
    /\ pc = "write_history"
    /\ SelectedIsSheet
    /\ ScenarioShape(Sheets[SelectedBytes], FALSE)
    /\ Len(df_new) = 2
    /\ df_new[2].fuel_type = Diesel

\* the price of the last row of df_new with identity id
LastIncomingPrice(id) ==
    LET n == CHOOSE k \in 1..Len(df_new) :
                 /\ RecordIdentity(df_new[k]) = id
                 /\ \A m \in (k + 1)..Len(df_new) : RecordIdentity(df_new[m]) # id
    IN  df_new[n].price_cents_per_litre

C3_OneLinePerIdentity ==
    \A i, j \in 1..Len(history_file.lines) :
        i # j => LineIdentity(history_file.lines[i]) # LineIdentity(history_file.lines[j])

\* the latest effective_date among the lines of a file
LatestDay(lines) ==
    CHOOSE d \in {lines[n][2] : n \in 1..Len(lines)} :
        \A n \in 1..Len(lines) : lines[n][2] <= d

\* a run has written history and snapshot (and was not killed in between)
OutputsWritten == pc = "write_hash" \/ (pc = "idle" /\ out.msg = "Hash saved")

\* C4: after a run has written its outputs, every line of the snapshot file
\* is of the latest effective_date of the history file, and every history
\* line of that date is in the snapshot.
C4_SnapshotIsLatestDay ==
    OutputsWritten =>
        /\ latest_file.exists
        /\ \A n \in 1..Len(latest_file.lines) :
              latest_file.lines[n][2] = LatestDay(history_file.lines)
        /\ \A n \in 1..Len(history_file.lines) :
              history_file.lines[n][2] = LatestDay(history_file.lines) =>
                  \E m \in 1..Len(latest_file.lines) :
                      latest_file.lines[m] = history_file.lines[n]

C4_Witness ==
    /\ pc = "idle"
    /\ out.msg = "Hash saved"
    /\ \E n \in 1..Len(history_file.lines) :
          history_file.lines[n][2] < LatestDay(history_file.lines)
    /\ Len(latest_file.lines) > 1
    /\ Len(latest_file.lines) < Len(history_file.lines)

\* C5: a run that finds the token file holding the digest of the selected
\* input file leaves history, snapshot and token as they were and exits 0,
\* having parsed nothing (it prints the unchanged notice).
C5_UnchangedShortCircuit ==
    [][(/\ pc = "idle"
        /\ HasInput
        /\ hash_file.exists
        /\ hash_file.text = get_file_hash(SelectedBytes)
        /\ Main)
        => /\ UNCHANGED <<history_file, latest_file, hash_file>>
           /\ pc' = "idle"
           /\ exit_code' = 0
           /\ out'.msg = "File unchanged"]_vars

C5_Witness ==
    /\ pc = "idle"
    /\ HasInput
    /\ exit_code = 0
    /\ out = Printed("File unchanged", get_file_hash(SelectedBytes))
    /\ hash_file = [exists |-> TRUE, text |-> get_file_hash(SelectedBytes)]

\* C6: after a run that completed on a file of digest d, the next run on a
\* file of the same digest writes nothing and takes the unchanged-skip path.
C6_SecondRunWritesNothing ==
    [][(/\ pc = "idle"
        /\ out.msg = "Hash saved"
        /\ HasInput
        /\ get_file_hash(SelectedBytes) = out.hash
        /\ Main)
        => /\ UNCHANGED <<history_file, latest_file, hash_file>>
           /\ pc' = "idle"
           /\ out' = Printed("File unchanged", out.hash)]_vars

\* the second of two runs on one content has skipped, the outputs of the
\* first in place
C6_Witness ==
    /\ pc = "idle"
    /\ out.msg = "File unchanged"
    /\ runs = 1
    /\ history_file.exists
    /\ latest_file.exists
    /\ hash_file.exists
    /\ out.hash = hash_file.text

\* the parser returns no record for the selected file
SelectedParsesToNothing ==
    LET parsed == parse_bp_pricing(SelectedBytes, runs + 1)
    IN  parsed.raised = "none" /\ parsed.data_records = <<>>

\* C7: a run on a changed file (token absent or different) from which the
\* parser returns no record exits non-zero and leaves history, snapshot and
\* token as they were.
C7_EmptyExtraction ==
    [][(StartsOnChangedFile /\ SelectedParsesToNothing)
        => /\ UNCHANGED <<history_file, latest_file, hash_file>>
           /\ pc' = "idle"
           /\ exit_code' # 0]_vars

C7_Witness ==
    /\ pc = "idle"
    /\ HasInput
    /\ exit_code = 1
    /\ out.msg = "No data extracted from file"
    /\ history_file.exists
    /\ hash_file.text # get_file_hash(SelectedBytes)

\* C8 as stated: the scan never ends in an exception, whatever the rows hold
\* (text in a price cell, a grid narrower than three columns).
C8_NeverRaises == raised = "none"

\* the fuel columns of the active header whose cell in r is not empty
Populated(r) ==
    {n \in 1..Len(header_row.fuel_cols) : ~pd_isna(at(r, header_row.fuel_cols[n].col))}

\* the body is on a data row: state and header active, a date in column 0, a
\* terminal that is neither empty nor 'nan' (nor the heading 'Terminal', which
\* makes the row a column-header row)
OnDataRow ==
    /\ scan_pc = "body"
    /\ current_state # None
    /\ header_row.set
    /\ at(row, 0).kind = "Date"
    /\ ~pd_isna(at(row, 2))
    /\ strip(str(at(row, 2))) \notin {<<>>, <<"nan">>, <<"Terminal">>}

\* C9 as stated: a data row with m non-empty cells among the k fuel columns
\* of the active header adds exactly m records, one per populated column.
C9_PartialRow ==
    [][(OnDataRow /\ ScanBody) =>
        /\ Len(data_records') = Len(data_records) + Cardinality(Populated(row))
        /\ \A n \in Populated(row) :
              \E m \in (Len(data_records) + 1)..Len(data_records') :
                  data_records'[m].fuel_type = header_row.fuel_cols[n].fuel]_vars

\* C10: while no section header has set current_state, the body adds no
\* record, whatever the row holds and whether or not a header row was seen.
C10_SectionIsolation ==
    [][(ScanBody /\ current_state = None) => data_records' = data_records]_vars

\* a header is active, no state is, and the body is on a row with a date, a
\* terminal and a price
C10_Witness ==
    /\ scan_pc = "body"
    /\ current_state = None
    /\ header_row.set
    /\ Len(header_row.fuel_cols) >= 1
    /\ at(row, 0).kind = "Date"
    /\ at(row, 2) = Text(<<"Eagle Farm", " ">>)
    /\ at(row, header_row.fuel_cols[1].col).kind = "Number"

\* identity and price of a line of a CSV file, of a record of a frame
RecordFact(x) == <<RecordIdentity(x), x.price_cents_per_litre>>

Facts(lines) == {<<LineIdentity(lines[n]), lines[n][5]>> : n \in 1..Len(lines)}

Identities(lines) == {LineIdentity(lines[n]) : n \in 1..Len(lines)}

\* every incoming record is in the existing history, identity and price
IncomingAlreadyPresent ==
    /\ history_file.exists
    /\ \A n \in 1..Len(df_new) : RecordFact(df_new[n]) \in Facts(history_file.lines)

\* C11 as stated: reconciling a history with incoming records that are all in
\* it already (same identities, same prices) writes a history of the same
\* size and the same (identity, price) content.
C11_IdempotentReconcile ==
    [][(WriteHistory /\ IncomingAlreadyPresent) =>
        /\ Len(history_file'.lines) = Len(history_file.lines)
        /\ Facts(history_file'.lines) = Facts(history_file.lines)]_vars

\* the records the parser returns for content c
ParsedFrom(c) == parse_bp_pricing(c, 0).data_records

\* the contents whose digest the token file holds
Vouched == {c \in Contents : hash_file.exists /\ get_file_hash(c) = hash_file.text}

\* C12 as stated, second half: whenever the token holds the digest of F, the
\* history file holds the records parsed from F (identity and price).
C12_TokenImpliesRecords ==
    \A c \in Vouched :
        \A n \in 1..Len(ParsedFrom(c)) :
            RecordFact(ParsedFrom(c)[n]) \in Facts(history_file.lines)

TokenImpliesIdentities ==
    \A c \in Vouched :
        \A n \in 1..Len(ParsedFrom(c)) :
            RecordIdentity(ParsedFrom(c)[n]) \in Identities(history_file.lines)

\* the token changes only in the last write of a run, when the history just
\* written holds the last price of every incoming identity and the snapshot
\* of that history is written too
TokenWrittenLast ==
    hash_file' # hash_file =>
        /\ pc = "write_hash"
        /\ pc' = "idle"
        /\ hash_file' = [exists |-> TRUE, text |-> get_file_hash(SelectedBytes)]
        /\ UNCHANGED <<history_file, latest_file>>
        /\ history_file.exists
        /\ latest_file.exists
        /\ \A n \in 1..Len(df_new) :
              <<RecordIdentity(df_new[n]), LastIncomingPrice(RecordIdentity(df_new[n]))>>
                  \in Facts(history_file.lines)
        /\ \A n \in 1..Len(latest_file.lines) :
              \E m \in 1..Len(history_file.lines) :
                  latest_file.lines[n] = history_file.lines[m]

\* C12 amended: the token is written last in a processing run, after history
\* and snapshot; so in every reachable state, a kill between two writes
\* included, a token equal to the digest of F implies that the history file
\* holds a line for every identity parsed from F (with F's last price for it
\* at the moment the token is written).
C12_TokenLast == []TokenImpliesIdentities /\ [][TokenWrittenLast]_vars

\* a later run was killed after rewriting the history: the token still names
\* the file of the run before
C12_Witness ==
    /\ pc = "idle"
    /\ exit_code = 137
    /\ out.msg = "Updated history"
    /\ hash_file.exists
    /\ HasInput
    /\ hash_file.text # get_file_hash(SelectedBytes)
    /\ Vouched # {}

\* C13: no step of any run (skipped, failed, completed or killed) removes an
\* identity from the history file.
C13_IdentitiesNeverShrink ==
    [][Identities(history_file.lines) \subseteq Identities(history_file'.lines)]_vars

\* a merge run has rewritten a history that held identities the parse did not
C13_Witness ==
    /\ pc = "write_latest"
    /\ runs >= 2
    /\ \E id \in Identities(history_file.lines) :
          \A n \in 1..Len(df_new) : RecordIdentity(df_new[n]) # id

\* line a may stand before line b in the history: state ascending, then
\* effective_date descending, then terminal, then fuel_type ascending
InHistoryOrder(a, b) ==
    LET s == CompareText(a[1], b[1])
        t == CompareText(a[3], b[3])
        f == CompareText(a[4], b[4])
    IN  \/ s < 0
        \/ s = 0 /\ a[2] > b[2]
        \/ s = 0 /\ a[2] = b[2] /\ t < 0
        \/ s = 0 /\ a[2] = b[2] /\ t = 0 /\ f <= 0

\* C14: the history every processing run writes is ordered by state
\* ascending, effective_date descending, terminal and fuel_type ascending.
C14_HistoryOrder ==
    [][WriteHistory =>
        \A i, j \in 1..Len(history_file'.lines) :
            i < j => InHistoryOrder(history_file'.lines[i], history_file'.lines[j])]_vars

\* a merged history with two states and two days of one state
C14_Witness ==
    /\ pc = "write_latest"
    /\ runs >= 2
    /\ \E i, j \in 1..Len(history_file.lines) :
          /\ history_file.lines[i][1] = history_file.lines[j][1]
          /\ history_file.lines[i][2] # history_file.lines[j][2]
    /\ \E i, j \in 1..Len(history_file.lines) :
          history_file.lines[i][1] # history_file.lines[j][1]

\* a name ending in .xlsx and not in .html.xlsx
IsWorkbookName(name) ==
    /\ Len(name) >= 2
    /\ name[Len(name)] = "xlsx"
    /\ ~(Len(name) >= 3 /\ name[Len(name) - 1] = "html")

NoWorkbookInDir == \A n \in 1..Len(dir) : ~IsWorkbookName(dir[n].name)

\* C15: with no .xlsx file in the directory (names in .html.xlsx not
\* counted) the run exits non-zero and writes none of the three files.
C15_NoInputFile ==
    [][(pc = "idle" /\ NoWorkbookInDir /\ Main) =>
        /\ UNCHANGED <<history_file, latest_file, hash_file>>
        /\ pc' = "idle"
        /\ exit_code' # 0
        /\ out'.msg = "No .xlsx file found"]_vars

\* only an .html.xlsx file is there, holding a workbook, and the run has
\* refused it
C15_Witness ==
    /\ pc = "idle"
    /\ exit_code = 1
    /\ out.msg = "No .xlsx file found"
    /\ Len(dir) = 1
    /\ dir[1].name = PageHtmlXlsx
    /\ dir[1].content = 2

\* ------------------------------------------- shapes of the row in the body
RowIsBlank == row[1].kind = "Empty"

RowIsSection ==
    /\ row[1].kind = "Text"
    /\ strip(row[1].txt) # <<>>
    /\ \A j \in 2..Len(row) : row[j].kind = "Empty"

RowIsColumnHeader ==
    /\ ~RowIsBlank
    /\ ~RowIsSection
    /\ Len(row) >= 3
    /\ row[3].kind = "Text"
    /\ strip(row[3].txt) = <<"Terminal">>

\* the records the body has just added
Added == {m \in 1..Len(data_records') : m > Len(data_records)}

\* C16: a row whose first cell is empty is skipped whatever its other cells
\* hold: current_state and header_row stay as they are, no record is added
\* (and nothing is raised).
C16_BlankFirstCell ==
    [][(ScanBody /\ RowIsBlank) =>
        /\ UNCHANGED <<current_state, header_row, data_records>>
        /\ raised' = "none"]_vars

\* the body is on a row with an empty first cell and 'Terminal' at index 2,
\* after a section header, an earlier header and a record
C16_Witness ==
    /\ scan_pc = "body"
    /\ RowIsBlank
    /\ Len(row) >= 4
    /\ row[3] = Text(<<" ", "Terminal">>)
    /\ row[4].kind = "Text"
    /\ current_state # None
    /\ header_row.set
    /\ header_row.fuel_cols # fuel_cols_from(row, 3, <<>>)
    /\ Len(data_records) >= 1

\* the fuel columns named by the row in the body: every text cell from
\* index 3 on, trimmed, with its index
FuelColumnsOfRow ==
    {[fuel |-> strip(row[j + 1].txt), col |-> j] :
        j \in {k \in 3..(Len(row) - 1) : row[k + 1].kind = "Text"}}

\* C17: a column-header row replaces the active mapping by its own; every
\* other row (blank, section, data, unrecognized) leaves the mapping as it
\* is; and every record a data row adds takes its fuel_type and its price
\* from one entry of the mapping active at that row.
C17_LatestHeaderActive ==
    [][ScanBody =>
        /\ IF RowIsColumnHeader
           THEN /\ header_row'.set
                /\ {header_row'.fuel_cols[n] : n \in 1..Len(header_row'.fuel_cols)}
                      = FuelColumnsOfRow
                /\ Len(header_row'.fuel_cols) = Cardinality(FuelColumnsOfRow)
           ELSE header_row' = header_row
        /\ \A m \in Added :
              \E n \in 1..Len(header_row.fuel_cols) :
                  /\ data_records'[m].fuel_type = header_row.fuel_cols[n].fuel
                  /\ row[header_row.fuel_cols[n].col + 1].kind = "Number"
                  /\ data_records'[m].price_cents_per_litre
                        = row[header_row.fuel_cols[n].col + 1].num]_vars

\* a record was added under one header and the body is on a second header
\* row naming other fuel columns
C17_Witness ==
    /\ scan_pc = "body"
    /\ RowIsColumnHeader
    /\ header_row.set
    /\ Len(data_records) >= 1
    /\ FuelColumnsOfRow # {}
    /\ FuelColumnsOfRow
          # {header_row.fuel_cols[n] : n \in 1..Len(header_row.fuel_cols)}

\* C18 as stated: a section-header-shaped row whose text, surrounding
\* whitespace aside, is one of the three banner lines leaves current_state as
\* it is; any other such row sets current_state to its trimmed text.
C18_BannerNeverState ==
    [][(ScanBody /\ RowIsSection) =>
        IF strip(row[1].txt) \in MetadataLines
        THEN current_state' = current_state
        ELSE current_state' = strip(row[1].txt)]_vars

\* the terminal cell of the row in the body is empty or reads 'nan'
TerminalMissing ==
    \/ row[3].kind = "Empty"
    \/ row[3].kind = "Text" /\ strip(row[3].txt) = <<"nan">>

\* C19: a data row (state and header active, a date in column 0) whose
\* terminal cell is empty or normalizes to 'nan' adds no record and leaves
\* current_state and header_row as they are.
C19_MissingTerminal ==
    [][(/\ ScanBody
        /\ current_state # None
        /\ header_row.set
        /\ row[1].kind = "Date"
        /\ TerminalMissing) =>
        /\ UNCHANGED <<current_state, header_row, data_records>>
        /\ raised' = "none"]_vars

\* the body is on a dated row with terminal 'nan' and a price under an
\* active fuel column
C19_Witness ==
    /\ scan_pc = "body"
    /\ current_state # None
    /\ header_row.set
    /\ row[1].kind = "Date"
    /\ row[3] = Text(<<"nan">>)
    /\ \E n \in 1..Len(header_row.fuel_cols) :
          row[header_row.fuel_cols[n].col + 1].kind = "Number"

\* every record carries the text of a section header that is not a banner
\* line, and a terminal
RecordsAttributed ==
    \A m \in 1..Len(data_records) :
        /\ data_records[m].state # <<>>
        /\ data_records[m].state \notin MetadataLines
        /\ data_records[m].terminal # <<>>

\* a section row that is not a banner line sets the state to its trimmed
\* text, a row that is not a section row leaves it, and the records added
\* carry the state active at their row
StateFollowsSections ==
    ScanBody =>
        /\ (RowIsSection /\ strip(row[1].txt) \notin MetadataLines)
              => current_state' = strip(row[1].txt)
        /\ ~RowIsSection => current_state' = current_state
        /\ \A m \in Added :
              /\ current_state # None
              /\ data_records'[m].state = current_state

\* C20 as stated: every record has a non-empty state equal to the trimmed
\* text of the most recent non-banner section-header row before its data
\* row, and a non-empty terminal.
C20_StateAttribution == []RecordsAttributed /\ [][StateFollowsSections]_vars

====
